---- MODULE Spec2Model ----
(***************************************************************************)
(* Model of d.py, the multi-source English dictionary: the two lookup      *)
(* functions (get_free_dictionary_definition, get_llm_definition), the     *)
(* search handler DictionaryApp.search_word on the interactive thread, the *)
(* background LLM workers, and the hand-off of their results through       *)
(* root.after to _insert_llm_result.                                       *)
(*                                                                         *)
(* Text is modelled character by character: a string is a sequence of      *)
(* one-character strings, so that searching, deleting and inserting in the *)
(* results widget are computed as Tk computes them.                        *)
(***************************************************************************)
EXTENDS Integers, Sequences, FiniteSets, TLC

VARIABLES
    entry,          \* content of word_entry when search_word last read it
    display,        \* content of results_text (without Tk's own final newline)
    wstate,         \* results_text's state option: "normal" or "disabled"
    pc,             \* position of the interactive thread inside search_word
    boxes,          \* search_word executions waiting inside their warning box
    cur,            \* locals of the search_word execution in progress, and
                    \* the response its dictionary request got
    worker,         \* one background thread per search: its position
    handed,         \* per search: what get_llm_definition gave its callback
    afterq,         \* callbacks queued by root.after, oldest first
    nSearch,        \* number of search_word invocations so far
    stats,          \* counters: requests sent, threads started, warnings, ...
    written,        \* what the current (or last) search_word wrote, in order
    inserted,       \* per search: how often its LLM result was put on display
    io              \* input and output of a lookup function applied on its own

vars == <<entry, display, wstate, pc, boxes, cur, worker, handed, afterq, nSearch,
          stats, written, inserted, io>>

\* ------------------------------------------------------------------ bounds

\* search_word invocations per behaviour
MaxSearches == 2

\* ---------------------------------------------------------------- literals

\* d.py:160  the pattern _insert_llm_result searches for
SEARCH_PATTERN ==
    <<"F", "e", "t", "c", "h", "i", "n", "g", " ", "d", "e", "f", "i", "n", "i", "t", "i", "o",
      "n", " ", "f", "r", "o", "m", " ", "L", "L", "M", ".", ".", ".">>

\* d.py:146  the placeholder line search_word inserts
PLACEHOLDER_LINE ==
    <<"F", "e", "t", "c", "h", "i", "n", "g", " ", "d", "e", "f", "i", "n", "i", "t", "i", "o",
      "n", " ", "f", "r", "o", "m", " ", "L", "L", "M", ".", ".", ".", " ", "P", "l", "e", "a",
      "s", "e", " ", "w", "a", "i", "t", ".", "\n">>

\* d.py:140
DICT_TITLE ==
    <<"F", "r", "e", "e", " ", "D", "i", "c", "t", "i", "o", "n", "a", "r", "y", " ", "(", "d",
      "i", "c", "t", "i", "o", "n", "a", "r", "y", "a", "p", "i", ".", "d", "e", "v", ")">>

\* d.py:145
LLM_TITLE ==
    <<"L", "L", "M", " ", "D", "e", "f", "i", "n", "i", "t", "i", "o", "n", " ", "(", "G", "e",
      "m", "i", "n", "i", ")">>

\* d.py:172
HDR_OPEN ==
    <<"-", "-", "-", " ">>

\* d.py:172
HDR_CLOSE ==
    <<" ", "-", "-", "-", "\n">>

\* d.py:142, 164, 166
NL2 ==
    <<"\n", "\n">>

\* d.py:31  the separator of the joined definitions
NL ==
    <<"\n">>

\* d.py:31
MSG_NO_DEFINITION_WORD ==
    <<"N", "o", " ", "d", "e", "f", "i", "n", "i", "t", "i", "o", "n", " ", "f", "o", "u", "n",
      "d", " ", "f", "o", "r", " ", "t", "h", "i", "s", " ", "w", "o", "r", "d", ".">>

\* d.py:34
MSG_NOT_FOUND ==
    <<"W", "o", "r", "d", " ", "n", "o", "t", " ", "f", "o", "u", "n", "d", " ", "i", "n", " ",
      "t", "h", "i", "s", " ", "d", "i", "c", "t", "i", "o", "n", "a", "r", "y", ".">>

\* d.py:36
MSG_HTTP_ERROR ==
    <<"H", "T", "T", "P", " ", "e", "r", "r", "o", "r", " ", "o", "c", "c", "u", "r", "r", "e",
      "d", ":", " ">>

\* d.py:38
MSG_ERROR ==
    <<"A", "n", " ", "e", "r", "r", "o", "r", " ", "o", "c", "c", "u", "r", "r", "e", "d", ":",
      " ">>

\* d.py:40
MSG_PARSE ==
    <<"C", "o", "u", "l", "d", " ", "n", "o", "t", " ", "p", "a", "r", "s", "e", " ", "t", "h",
      "e", " ", "r", "e", "s", "p", "o", "n", "s", "e", " ", "f", "r", "o", "m", " ", "t", "h",
      "e", " ", "s", "e", "r", "v", "e", "r", ".">>

\* d.py:23
DEFAULT_POS ==
    <<"N", "/", "A">>

\* d.py:25
DEFAULT_DEFINITION ==
    <<"N", "o", " ", "d", "e", "f", "i", "n", "i", "t", "i", "o", "n", " ", "f", "o", "u", "n",
      "d", ".">>

\* d.py:29
EXAMPLE_OPEN ==
    <<"\n", " ", " ", "-", " ", "E", "x", "a", "m", "p", "l", "e", ":", " ", "\"">>

\* d.py:29
EXAMPLE_CLOSE ==
    <<"\"">>

\* d.py:80
LLM_MSG_FORMAT ==
    <<"E", "r", "r", "o", "r", ":", " ", "U", "n", "e", "x", "p", "e", "c", "t", "e", "d", " ",
      "A", "P", "I", " ", "r", "e", "s", "p", "o", "n", "s", "e", " ", "f", "o", "r", "m", "a",
      "t", ".", "\n", "\n", "R", "a", "w", " ", "r", "e", "s", "p", "o", "n", "s", "e", ":",
      "\n">>

\* d.py:85
LLM_MSG_HTTP ==
    <<"A", "n", " ", "H", "T", "T", "P", " ", "e", "r", "r", "o", "r", " ", "o", "c", "c", "u",
      "r", "r", "e", "d", ":", " ">>

\* d.py:85
LLM_MSG_RESPONSE ==
    <<"\n", "R", "e", "s", "p", "o", "n", "s", "e", ":", " ">>

\* d.py:88
LLM_MSG_NETWORK ==
    <<"A", " ", "n", "e", "t", "w", "o", "r", "k", " ", "e", "r", "r", "o", "r", " ", "o", "c",
      "c", "u", "r", "r", "e", "d", " ", "w", "h", "i", "l", "e", " ", "c", "o", "n", "t", "a",
      "c", "t", "i", "n", "g", " ", "t", "h", "e", " ", "L", "L", "M", ":", " ">>

\* d.py:91
LLM_MSG_PARSING ==
    <<"E", "r", "r", "o", "r", " ", "p", "a", "r", "s", "i", "n", "g", " ", "t", "h", "e", " ",
      "L", "L", "M", " ", "r", "e", "s", "p", "o", "n", "s", "e", ":", " ">>

\* d.py:94
LLM_MSG_UNEXPECTED ==
    <<"A", "n", " ", "u", "n", "e", "x", "p", "e", "c", "t", "e", "d", " ", "e", "r", "r", "o",
      "r", " ", "o", "c", "c", "u", "r", "r", "e", "d", ":", " ">>

\* str(AttributeError) of a failed .get lookup, d.py:67-74 and 22-26
ATTR_ERR_TAIL ==
    <<"'", " ", "o", "b", "j", "e", "c", "t", " ", "h", "a", "s", " ", "n", "o", " ", "a", "t",
      "t", "r", "i", "b", "u", "t", "e", " ", "'", "g", "e", "t", "'">>

\* str(TypeError) of a for loop over a non-iterable, d.py:22, 24
NOT_ITERABLE_TAIL ==
    <<"'", " ", "o", "b", "j", "e", "c", "t", " ", "i", "s", " ", "n", "o", "t", " ", "i", "t",
      "e", "r", "a", "b", "l", "e">>

\* d.py:67
KEY_CANDIDATES ==
    <<"c", "a", "n", "d", "i", "d", "a", "t", "e", "s">>

\* d.py:70
KEY_CONTENT ==
    <<"c", "o", "n", "t", "e", "n", "t">>

\* d.py:71
KEY_PARTS ==
    <<"p", "a", "r", "t", "s">>

\* d.py:74
KEY_TEXT ==
    <<"t", "e", "x", "t">>

\* d.py:22
KEY_MEANINGS ==
    <<"m", "e", "a", "n", "i", "n", "g", "s">>

\* d.py:23
KEY_POS ==
    <<"p", "a", "r", "t", "O", "f", "S", "p", "e", "e", "c", "h">>

\* d.py:24
KEY_DEFINITIONS ==
    <<"d", "e", "f", "i", "n", "i", "t", "i", "o", "n", "s">>

\* d.py:25
KEY_DEFINITION ==
    <<"d", "e", "f", "i", "n", "i", "t", "i", "o", "n">>

\* d.py:26
KEY_EXAMPLE ==
    <<"e", "x", "a", "m", "p", "l", "e">>

\* ------------------------------------------------------------ text helpers

\* ------------------------------------------------------------ characters

\* A character is a string of length one. The characters with the code
\* points U+0001 to U+005F, in the order of their code points
CHARS_LOW ==
    "\t\n\f\r !\"#$%&'()*+,-./0123456789:;<=>?@ABCDEFGHIJKLMNOPQRSTUVWXYZ[\\]^_"

\* the characters with the code points U+0061 to U+00FF, in that order (a
\* string cannot hold U+0060, the grave accent)
CHARS_HIGH ==
    "abcdefghijklmnopqrstuvwxyz{|}~ ¡¢£¤¥¦§¨©ª«¬­®¯°±²³´µ¶·¸¹º»¼½¾¿ÀÁÂÃÄÅÆÇÈÉÊËÌÍÎÏÐÑÒÓÔÕÖ×ØÙÚÛÜÝÞßàáâãäåæçèéêëìíîïðñòóôõö÷øùúûüýþÿ"

\* ord(c), the code point of a character: of those up to U+00FF, of the euro
\* sign and of the ogham space mark
CodePoint(c) ==
    CASE c = "€" -> 8364
      [] c = " " -> 5760
      [] \E n \in 1..95 : SubSeq(CHARS_LOW, n, n) = c ->
            CHOOSE n \in 1..95 : SubSeq(CHARS_LOW, n, n) = c
      [] OTHER -> 96 + (CHOOSE n \in 1..159 : SubSeq(CHARS_HIGH, n, n) = c)

\* whether str.isprintable() accepts the character with code point n: not
\* the control characters, no separator but the space, not the soft hyphen
Printable(n) == n \in (32..126) \cup ((161..255) \ {173}) \cup {8364}

\* the number of bytes of the character in UTF-8: one up to U+007F, two up
\* to U+07FF, three beyond
Utf8Len(c) == 1 + Cardinality({b \in {128, 2048} : CodePoint(c) >= b})

\* the number of bytes of a text in UTF-8
RECURSIVE ByteLen(_)
ByteLen(s) == IF s = <<>> THEN 0 ELSE Utf8Len(Head(s)) + ByteLen(Tail(s))

HexDigit(n) ==
    <<"0", "1", "2", "3", "4", "5", "6", "7", "8", "9", "a", "b", "c", "d", "e", "f">>[n + 1]

\* n in lowercase hexadecimal digits, padded with zeros to the given width
\* (format(n, "04x"), "%02x")
RECURSIVE Hex(_, _)
Hex(n, width) ==
    IF width = 0 THEN <<>> ELSE Hex(n \div 16, width - 1) \o <<HexDigit(n % 16)>>

Min(S) == CHOOSE x \in S : \A y \in S : x <= y

\* characters str.strip() removes (d.py:131): those str.isspace() accepts,
\* U+0009 to U+000D, U+001C to U+0020, U+0085, U+00A0 and U+1680
Whitespace ==
    {SubSeq(CHARS_LOW, n, n) : n \in (9..13) \cup (28..32)}
    \cup {SubSeq(CHARS_HIGH, n - 96, n - 96) : n \in {133, 160}}
    \cup {" "}

RECURSIVE LStrip(_)
LStrip(s) == IF s # <<>> /\ Head(s) \in Whitespace THEN LStrip(Tail(s)) ELSE s

RECURSIVE RStrip(_)
RStrip(s) ==
    IF s # <<>> /\ s[Len(s)] \in Whitespace THEN RStrip(SubSeq(s, 1, Len(s) - 1)) ELSE s

\* word_entry.get().strip() without the strip: the raw input is used as it is
StripNone(s) == s

\* d.py:131  str.strip()
Strip(s) == RStrip(LStrip(s))

\* a sequence of character sequences joined by sep (d.py:31 "\n".join)
RECURSIVE Join(_, _)
Join(parts, sep) ==
    IF parts = <<>> THEN <<>>
    ELSE IF Len(parts) = 1 THEN parts[1]
    ELSE parts[1] \o sep \o Join(Tail(parts), sep)

\* whether pattern p occurs in text d at position i
MatchesAt(d, p, i) == \A j \in 1..Len(p) : d[i + j - 1] = p[j]

\* Text.search(pattern, "1.0", END): the position of the first occurrence of
\* the pattern in the text, 0 when there is none (Tk returns "")
TextSearch(d, p) ==
    LET hits == {i \in 1..(Len(d) - Len(p) + 1) : MatchesAt(d, p, i)}
    IN  IF hits = {} THEN 0 ELSE Min(hits)

\* position of the first character of the line that holds position i
LineStart(d, i) ==
    LET nls == {k \in 1..(i - 1) : d[k] = "\n"}
    IN  IF nls = {} THEN 1 ELSE (CHOOSE k \in nls : \A m \in nls : m <= k) + 1

\* position of the newline that ends the line holding position i; Len(d) + 1
\* is the newline Tk keeps after the last character
LineEnd(d, i) ==
    LET nls == {k \in i..Len(d) : d[k] = "\n"}
    IN  IF nls = {} THEN Len(d) + 1 ELSE Min(nls)

\* tk.END, the index after the newline Tk keeps after the last character
TkEnd(d) == Len(d) + 2

\* the Tk index "i + 1 lines": Tk keeps the column counted in bytes of UTF-8
\* and goes to the first character boundary of the next line at or after
\* that column, or to that line's newline when the line is shorter; tk.END
\* when the line of i is the last one
PlusOneLine(d, i) ==
    LET col == ByteLen(SubSeq(d, LineStart(d, i), i - 1))
        nl  == LineEnd(d, i)
    IN  IF nl > Len(d) THEN TkEnd(d)
        ELSE LET next == nl + 1
                 stop == LineEnd(d, next)
                 at   == {p \in next..stop : ByteLen(SubSeq(d, next, p - 1)) >= col}
             IN  IF at = {} THEN stop ELSE Min(at)

\* Text.delete(i, j) on a widget in state st: nothing happens when the widget
\* is disabled or the range is empty. Tk never deletes its last newline: when
\* j is tk.END it deletes up to that newline and, when i is at the start of
\* a line other than the first, the newline before i as well
TextDelete(d, st, i, j) ==
    IF st # "normal" \/ i >= j THEN d
    ELSE IF j >= TkEnd(d)
    THEN LET first == IF i > 1 /\ i <= Len(d) + 1 /\ d[i - 1] = "\n" THEN i - 1 ELSE i
         IN  SubSeq(d, 1, first - 1)
    ELSE SubSeq(d, 1, i - 1) \o SubSeq(d, j, Len(d))

\* Text.insert(i, s) on a widget in state st; at tk.END, and at any index
\* past the text, the insert goes before the newline Tk keeps
TextInsert(d, st, i, s) ==
    IF st = "normal"
    THEN LET at == Min({i, Len(d) + 1})
         IN  SubSeq(d, 1, at - 1) \o s \o SubSeq(d, at, Len(d))
    ELSE d

\* d.py:170-173  add_result_header: the header line appended at tk.END
add_result_header(d, st, title) ==
    TextInsert(d, st, TkEnd(d), HDR_OPEN \o title \o HDR_CLOSE)

\* ------------------------------------------------------------- JSON values
\* A decoded JSON value (what response.json() returns) is a record tagged with
\* its Python type; a dict is the sequence of its <<key, value>> pairs in
\* insertion order, a string is a sequence of characters.

JS(s) == [t |-> "str", v |-> s]
JI(n) == [t |-> "int", v |-> n]
JB(b) == [t |-> "bool", v |-> b]
JL(items) == [t |-> "list", v |-> items]
JD(pairs) == [t |-> "dict", v |-> pairs]
JNull == [t |-> "null", v |-> <<>>]

\* Python's truth value of a decoded JSON value (the operands of `and`, `if`)
Truthy(x) ==
    CASE x.t = "str" -> x.v # <<>>
      [] x.t = "int" -> x.v # 0
      [] x.t = "bool" -> x.v
      [] x.t = "list" -> x.v # <<>>
      [] x.t = "dict" -> x.v # <<>>
      [] OTHER -> FALSE

\* type(x).__name__, as it appears in Python's exception messages
TypeName(x) ==
    CASE x.t = "str" -> <<"s", "t", "r">>
      [] x.t = "int" -> <<"i", "n", "t">>
      [] x.t = "bool" -> <<"b", "o", "o", "l">>
      [] x.t = "list" -> <<"l", "i", "s", "t">>
      [] x.t = "dict" -> <<"d", "i", "c", "t">>
      [] OTHER -> <<"N", "o", "n", "e", "T", "y", "p", "e">>

HasKey(x, k) == \E i \in 1..Len(x.v) : x.v[i][1] = k

\* dict.get(k, default) of a dict x
GetOr(x, k, default) ==
    IF HasKey(x, k) THEN x.v[CHOOSE i \in 1..Len(x.v) : x.v[i][1] = k][2] ELSE default

\* dict.get(k): None when the key is absent
Get(x, k) == GetOr(x, k, JNull)

Digit(n) == <<"0", "1", "2", "3", "4", "5", "6", "7", "8", "9">>[n + 1]

\* str(n) of an integer
RECURSIVE IntStr(_)
IntStr(n) ==
    IF n < 0 THEN <<"-">> \o IntStr(0 - n)
    ELSE IF n < 10 THEN <<Digit(n)>>
    ELSE IntStr(n \div 10) \o <<Digit(n % 10)>>

Spaces(n) == [i \in 1..n |-> " "]

\* the JSON escape of a character with code point n that has no escape of
\* its own: the printable ASCII characters as they are, every other
\* character as \uXXXX
JsonEscapeCode(c, n) ==
    IF n = 8 THEN <<"\\", "b">>
    ELSE IF n \in 32..126 THEN <<c>>
    ELSE <<"\\", "u">> \o Hex(n, 4)

\* the JSON escape of one character inside a string literal, as json.dumps
\* writes it (ensure_ascii)
JsonEscape(c) ==
    CASE c = "\"" -> <<"\\", "\"">>
      [] c = "\\" -> <<"\\", "\\">>
      [] c = "\n" -> <<"\\", "n">>
      [] c = "\r" -> <<"\\", "r">>
      [] c = "\t" -> <<"\\", "t">>
      [] c = "\f" -> <<"\\", "f">>
      [] OTHER -> JsonEscapeCode(c, CodePoint(c))

RECURSIVE JsonQuote(_)
JsonQuote(s) == IF s = <<>> THEN <<>> ELSE JsonEscape(Head(s)) \o JsonQuote(Tail(s))

\* json.dumps(x, indent=2) (d.py:80), x at nesting depth `level`
RECURSIVE Dumps(_, _)
Dumps(x, level) ==
    LET pad == Spaces(2 * (level + 1))
        sep == <<",", "\n">>
        item(i) == pad \o Dumps(x.v[i], level + 1)
        pair(i) == pad \o <<"\"">> \o JsonQuote(x.v[i][1]) \o <<"\"", ":", " ">>
                       \o Dumps(x.v[i][2], level + 1)
    IN  CASE x.t = "str" -> <<"\"">> \o JsonQuote(x.v) \o <<"\"">>
          [] x.t = "int" -> IntStr(x.v)
          [] x.t = "bool" -> IF x.v THEN <<"t", "r", "u", "e">>
                                    ELSE <<"f", "a", "l", "s", "e">>
          [] x.t = "list" ->
                IF x.v = <<>> THEN <<"[", "]">>
                ELSE <<"[", "\n">> \o Join([i \in 1..Len(x.v) |-> item(i)], sep)
                         \o <<"\n">> \o Spaces(2 * level) \o <<"]">>
          [] x.t = "dict" ->
                IF x.v = <<>> THEN <<"{", "}">>
                ELSE <<"{", "\n">> \o Join([i \in 1..Len(x.v) |-> pair(i)], sep)
                         \o <<"\n">> \o Spaces(2 * level) \o <<"}">>
          [] OTHER -> <<"n", "u", "l", "l">>

\* repr of a character with code point n that has no escape of its own: as
\* it is when printable, \xXX up to U+00FF and \uXXXX beyond otherwise
PyReprCode(c, n) ==
    IF Printable(n) THEN <<c>>
    ELSE IF n < 256 THEN <<"\\", "x">> \o Hex(n, 2)
    ELSE <<"\\", "u">> \o Hex(n, 4)

\* repr of one character inside quotes of the given kind
PyReprChar(c, quote) ==
    CASE c = "\\" -> <<"\\", "\\">>
      [] c = quote -> <<"\\", c>>
      [] c = "\n" -> <<"\\", "n">>
      [] c = "\r" -> <<"\\", "r">>
      [] c = "\t" -> <<"\\", "t">>
      [] OTHER -> PyReprCode(c, CodePoint(c))

\* the characters of s as repr writes them inside quotes of the given kind
RECURSIVE PyReprBody(_, _)
PyReprBody(s, quote) ==
    IF s = <<>> THEN <<>>
    ELSE PyReprChar(Head(s), quote) \o PyReprBody(Tail(s), quote)

\* the quote repr(s) puts around a string: the double quote when s holds a
\* single quote and no double quote, the single quote otherwise
PyReprQuote(s) ==
    IF (\E i \in 1..Len(s) : s[i] = "'") /\ ~(\E i \in 1..Len(s) : s[i] = "\"")
    THEN "\""
    ELSE "'"

\* s as repr writes it in quotes of the given kind
PyReprIn(s, quote) == <<quote>> \o PyReprBody(s, quote) \o <<quote>>

\* repr(s) of a string, as it appears inside the str() of a list or dict
PyReprStr(s) == PyReprIn(s, PyReprQuote(s))

\* str(x), the text an f-string puts for {x} (d.py:27, 29): a list or dict
\* holds the repr of its items, a dict that of its keys too
RECURSIVE PyStr(_)
PyStr(x) ==
    LET key(i)  == IF x.t = "dict" THEN PyReprStr(x.v[i][1]) \o <<":", " ">> ELSE <<>>
        item(y) == IF y.t = "str" THEN PyReprStr(y.v) ELSE PyStr(y)
    IN  CASE x.t = "str" -> x.v
          [] x.t = "int" -> IntStr(x.v)
          [] x.t = "bool" -> IF x.v THEN <<"T", "r", "u", "e">>
                                    ELSE <<"F", "a", "l", "s", "e">>
          [] x.t \in {"list", "dict"} ->
                (IF x.t = "list" THEN <<"[">> ELSE <<"{">>)
                \o Join([i \in 1..Len(x.v) |->
                           key(i) \o item(IF x.t = "dict" THEN x.v[i][2] ELSE x.v[i])],
                        <<",", " ">>)
                \o (IF x.t = "list" THEN <<"]">> ELSE <<"}">>)
          [] OTHER -> <<"N", "o", "n", "e">>

\* what a Python statement does: it returns a value or raises an exception
Return(v) == [ret |-> "return", value |-> v, exc |-> "", msg |-> <<>>]
Raise(class, text) == [ret |-> "raise", value |-> <<>>, exc |-> class, msg |-> text]

\* the AttributeError of x.get(...) on a value without a get method
NoGet(x) == Raise("AttributeError", <<"'">> \o TypeName(x) \o ATTR_ERR_TAIL)

\* the items a for loop over x visits, or the TypeError of a value that is
\* not iterable (d.py:21, 22, 24): a list gives its items, a dict its keys, a
\* string its characters
Iterate(x) ==
    CASE x.t = "list" -> Return(x.v)
      [] x.t = "dict" -> Return([i \in 1..Len(x.v) |-> JS(x.v[i][1])])
      [] x.t = "str" -> Return([i \in 1..Len(x.v) |-> JS(<<x.v[i]>>)])
      [] OTHER -> Raise("TypeError", <<"'">> \o TypeName(x) \o NOT_ITERABLE_TAIL)

\* ------------------------------------------------- outcomes of a request
\* What requests.get / requests.post and response.json() can do:
\*   [kind |-> "http_error", status, err, body]  raise_for_status() raises
\*       HTTPError; err is str(http_err), body is http_err.response.text
\*   [kind |-> "transport", err]    the request raises a RequestException
\*   [kind |-> "undecodable", exc, err]  response.json() raises a decode error
\*       of class exc: requests.exceptions.JSONDecodeError (a RequestException,
\*       requests >= 2.27) or json.JSONDecodeError (older requests)
\*   [kind |-> "json", data]        response.json() returns data

HttpError(status, err, body) ==
    [kind |-> "http_error", status |-> status, err |-> err, body |-> body,
     exc |-> "HTTPError", data |-> JNull]
Transport(err) ==
    [kind |-> "transport", status |-> 0, err |-> err, body |-> <<>>,
     exc |-> "RequestException", data |-> JNull]
Undecodable(class, err) ==
    [kind |-> "undecodable", status |-> 200, err |-> err, body |-> <<>>,
     exc |-> class, data |-> JNull]
Decoded(data) ==
    [kind |-> "json", status |-> 200, err |-> <<>>, body |-> <<>>,
     exc |-> "", data |-> data]

\* d.py:15-17, 61-64  the request, raise_for_status() and response.json():
\* the decoded body, or the exception raised
Request(o) ==
    CASE o.kind = "http_error" -> Raise("HTTPError", o.err)
      [] o.kind = "transport" -> Raise("RequestException", o.err)
      [] o.kind = "undecodable" -> Raise(o.exc, o.err)
      [] OTHER -> Return(o.data)

\* exception classes an `except requests.exceptions.RequestException` catches
RequestExceptions == {"HTTPError", "RequestException", "requests.JSONDecodeError"}

\* exception classes an `except json.JSONDecodeError` catches
JsonDecodeErrors == {"json.JSONDecodeError", "requests.JSONDecodeError"}

\* ------------------------------------------ get_free_dictionary_definition

\* d.py:25-29  the formatted string of one definition
DefStr(pos, info) ==
    <<"(">> \o PyStr(pos) \o <<")", " ">>
    \o PyStr(GetOr(info, KEY_DEFINITION, JS(DEFAULT_DEFINITION)))
    \o (IF Truthy(GetOr(info, KEY_EXAMPLE, JS(<<>>)))
        THEN EXAMPLE_OPEN \o PyStr(GetOr(info, KEY_EXAMPLE, JS(<<>>))) \o EXAMPLE_CLOSE
        ELSE <<>>)

\* the strings of one pass of a loop followed by those of the later passes;
\* the first exception ends the loop
Extend(own, rest) ==
    IF own.ret = "raise" THEN own
    ELSE IF rest.ret = "raise" THEN rest
    ELSE Return(own.value \o rest.value)

\* d.py:24-30  the loop over one meaning's definitions
RECURSIVE DefinitionLoop(_, _)
DefinitionLoop(infos, pos) ==
    IF infos = <<>> THEN Return(<<>>)
    ELSE IF Head(infos).t # "dict" THEN NoGet(Head(infos))
    ELSE Extend(Return(<<DefStr(pos, Head(infos))>>), DefinitionLoop(Tail(infos), pos))

\* d.py:24  the for statement over a meaning's definitions: the TypeError of
\* a value that cannot be iterated, or the loop over its items
OverDefinitions(infos, pos) ==
    IF infos.ret = "raise" THEN infos ELSE DefinitionLoop(infos.value, pos)

\* d.py:22-30  the loop over one entry's meanings
RECURSIVE MeaningLoop(_)
MeaningLoop(meanings) ==
    IF meanings = <<>> THEN Return(<<>>)
    ELSE IF Head(meanings).t # "dict" THEN NoGet(Head(meanings))
    ELSE Extend(OverDefinitions(Iterate(GetOr(Head(meanings), KEY_DEFINITIONS, JL(<<>>))),
                                GetOr(Head(meanings), KEY_POS, JS(DEFAULT_POS))),
                MeaningLoop(Tail(meanings)))

\* d.py:22  the for statement over an entry's meanings: the TypeError of a
\* value that cannot be iterated, or the loop over its items
OverMeanings(meanings) ==
    IF meanings.ret = "raise" THEN meanings ELSE MeaningLoop(meanings.value)

\* the entry loop with each entry's definitions put in front of the ones
\* collected so far, instead of behind them
RECURSIVE EntryLoopReversed(_)
EntryLoopReversed(entries) ==
    IF entries = <<>> THEN Return(<<>>)
    ELSE IF Head(entries).t # "dict" THEN NoGet(Head(entries))
    ELSE LET meanings == Iterate(GetOr(Head(entries), KEY_MEANINGS, JL(<<>>)))
             own      == IF meanings.ret = "raise" THEN meanings
                         ELSE MeaningLoop(meanings.value)
             rest     == EntryLoopReversed(Tail(entries))
         IN  IF own.ret = "raise" THEN own
             ELSE IF rest.ret = "raise" THEN rest
             ELSE Return(rest.value \o own.value)

\* d.py:21-30  the loop over the entries: the definitions list
RECURSIVE EntryLoop(_)
EntryLoop(entries) ==
    IF entries = <<>> THEN Return(<<>>)
    ELSE IF Head(entries).t # "dict" THEN NoGet(Head(entries))
    ELSE Extend(OverMeanings(Iterate(GetOr(Head(entries), KEY_MEANINGS, JL(<<>>)))),
                EntryLoop(Tail(entries)))

\* d.py:31  the definitions the loops collected joined by newlines, or the
\* text for none; an exception of the loops passes
DictText(definitions) ==
    IF definitions.ret = "raise" THEN definitions
    ELSE IF definitions.value # <<>> THEN Return(Join(definitions.value, NL))
    ELSE Return(MSG_NO_DEFINITION_WORD)

\* d.py:19-31  the try body after response.json()
DictBody(data) ==
    DictText(IF data.t = "list" /\ data.v # <<>> THEN EntryLoop(data.v) ELSE Return(<<>>))

\* the except clauses without the test for status 404: every HTTP error gives
\* the "HTTP error occurred" text
DictExceptNo404(o, e) ==
    IF e.exc = "HTTPError" THEN Return(MSG_HTTP_ERROR \o e.msg)
    ELSE IF e.exc \in RequestExceptions THEN Return(MSG_ERROR \o e.msg)
    ELSE IF e.exc \in JsonDecodeErrors THEN Return(MSG_PARSE)
    ELSE e

\* d.py:32-40  the except clauses, in their order; any other exception
\* leaves the function
DictExcept(o, e) ==
    IF e.exc = "HTTPError"
    THEN IF o.status = 404 THEN Return(MSG_NOT_FOUND)
         ELSE Return(MSG_HTTP_ERROR \o e.msg)
    ELSE IF e.exc \in RequestExceptions THEN Return(MSG_ERROR \o e.msg)
    ELSE IF e.exc \in JsonDecodeErrors THEN Return(MSG_PARSE)
    ELSE e

\* d.py:13-31  the try block: the request and, when it raised nothing, the
\* body after it
DictTry(response) ==
    IF response.ret = "raise" THEN response ELSE DictBody(response.value)

\* d.py:32-40  what the except clauses make of the try block's end
DictHandled(o, body) == IF body.ret = "raise" THEN DictExcept(o, body) ELSE body

\* d.py:9-40  get_free_dictionary_definition, for the outcome o of its request
get_free_dictionary_definition(o) == DictHandled(o, DictTry(Request(o)))

\* ------------------------------------------------------ get_llm_definition

\* d.py:79-81  the else branch: the error text with the raw response
LlmFormatError(result) == Return(JS(LLM_MSG_FORMAT \o Dumps(result, 0)))

\* d.py:66-81  the chain of checks, each `and` operand evaluated only when the
\* ones before it are true; the value handed to callback, or the exception
LlmParse(result) ==
    IF result.t # "dict" THEN NoGet(result)
    ELSE LET candidates == Get(result, KEY_CANDIDATES)
    IN  IF ~(Truthy(candidates) /\ candidates.t = "list" /\ Len(candidates.v) > 0)
        THEN LlmFormatError(result)
    ELSE IF candidates.v[1].t # "dict" THEN NoGet(candidates.v[1])
    ELSE LET content == Get(candidates.v[1], KEY_CONTENT)
    IN  IF ~Truthy(content) THEN LlmFormatError(result)
    ELSE IF content.t # "dict" THEN NoGet(content)
    ELSE LET parts == Get(content, KEY_PARTS)
    IN  IF ~(Truthy(parts) /\ parts.t = "list" /\ Len(parts.v) > 0)
        THEN LlmFormatError(result)
    ELSE IF parts.v[1].t # "dict" THEN NoGet(parts.v[1])
    ELSE LET text == Get(parts.v[1], KEY_TEXT)
    IN  IF ~Truthy(text) THEN LlmFormatError(result)
    ELSE Return(text)

\* d.py:83-94  the except clauses, in their order: each one calls callback
LlmExcept(o, e) ==
    IF e.exc = "HTTPError"
    THEN Return(JS(LLM_MSG_HTTP \o e.msg \o LLM_MSG_RESPONSE \o o.body))
    ELSE IF e.exc \in RequestExceptions THEN Return(JS(LLM_MSG_NETWORK \o e.msg))
    ELSE IF e.exc \in {"KeyError", "IndexError", "TypeError"}
    THEN Return(JS(LLM_MSG_PARSING \o e.msg))
    ELSE Return(JS(LLM_MSG_UNEXPECTED \o e.msg))

\* d.py:42-94  get_llm_definition, for the outcome o of its request: the
\* values it hands to callback, in order, and whether an exception leaves it
get_llm_definition(o) ==
    LET response == Request(o)
        body     == IF response.ret = "raise" THEN response
                    ELSE LlmParse(response.value)
        final    == IF body.ret = "raise" THEN LlmExcept(o, body) ELSE body
    IN  [callbacks |-> IF final.ret = "return" THEN <<final.value>> ELSE <<>>,
         raised    |-> final.ret = "raise"]

\* ------------------------------------------------------- sample inputs

\* what the user may have typed into word_entry when search_word runs
RawInputs ==
    {<<>>, <<" ", " ">>, <<"\r", " ">>, <<"c", "a", "t">>, <<" ", "c", "a", "t", "\n">>}

\* str(e) of the exceptions of the sample outcomes
ERR_404 == <<"4", "0", "4", " ", "N", "o", "t", " ", "F", "o", "u", "n", "d">>
ERR_500 == <<"5", "0", "0", " ", "E", "r", "r", "o", "r">>
ERR_CONN == <<"r", "e", "f", "u", "s", "e", "d">>
ERR_DECODE == <<"E", "x", "p", "e", "c", "t", "i", "n", "g", " ", "v", "a", "l", "u", "e">>

\* a dictionary body with one entry, one meaning and the given definitions
OneMeaning(pos, infos) ==
    JL(<<JD(<<<<KEY_MEANINGS,
                JL(<<JD(<<<<KEY_POS, JS(pos)>>, <<KEY_DEFINITIONS, JL(infos)>>>>)>>)>>>>)>>)

Info(text) == JD(<<<<KEY_DEFINITION, JS(text)>>>>)

\* an LLM response body that follows the expected chain down to one step
\* and holds x there (d.py:67-74)
WithCandidates(x) == JD(<<<<KEY_CANDIDATES, x>>>>)
WithCandidate(x) == WithCandidates(JL(<<x>>))
WithContent(x) == WithCandidate(JD(<<<<KEY_CONTENT, x>>>>))
WithParts(x) == WithContent(JD(<<<<KEY_PARTS, x>>>>))
WithPart(x) == WithParts(JL(<<x>>))
WithText(x) == WithPart(JD(<<<<KEY_TEXT, x>>>>))

\* the outcomes of the dictionary request the searches of Spec draw from: a
\* 404, another error status, a definition, a definition whose text holds the
\* placeholder's words, and a body whose entry is not a mapping
DictOutcomes ==
    { HttpError(404, ERR_404, <<>>),
      HttpError(500, ERR_500, <<>>),
      Decoded(OneMeaning(<<"n">>, <<Info(<<"p", "e", "t">>)>>)),
      Decoded(OneMeaning(<<"v">>, <<Info(SEARCH_PATTERN)>>)),
      Decoded(JL(<<JI(1)>>)) }

\* the outcomes of the LLM request the workers of Spec draw from: a generated
\* text, an error status, a body that is a list, and a body whose text is a
\* number
LlmOutcomes ==
    { Decoded(WithText(JS(<<"m", "e", "o", "w">>))),
      HttpError(500, ERR_500, <<"n", "o">>),
      Decoded(JL(<<>>)),
      Decoded(WithText(JI(5))) }

\* ------------------------------------------------------- the application

SearchIds == 1..MaxSearches

NoSearch == [id |-> 0, word |-> <<>>, sent |-> FALSE, response |-> Decoded(JNull),
             definition1 |-> <<>>]

NoIo == [fn |-> "none", arg |-> Decoded(JNull), done |-> FALSE,
         value |-> <<>>, raised |-> FALSE]

\* d.py:100-127  the application after __init__: the results widget is
\* created empty and disabled, nothing is running
Init ==
    /\ entry = <<>>
    /\ display = <<>>
    /\ wstate = "disabled"
    /\ pc = "idle"
    /\ boxes = 0
    /\ cur = NoSearch
    /\ worker = [i \in SearchIds |-> "none"]
    /\ handed = [i \in SearchIds |-> JNull]
    /\ afterq = <<>>
    /\ nSearch = 0
    /\ stats = [dictRequests |-> 0, llmRequests |-> 0, threads |-> 0,
                warnings |-> 0, uiErrors |-> 0]
    /\ written = <<>>
    /\ inserted = [i \in SearchIds |-> 0]
    /\ io = NoIo

\* d.py:133, 178  where the interactive thread is when a handler has returned
\* with n warning boxes open: in the event loop of the innermost box, or in
\* mainloop
EventLoop(n) == IF n > 0 THEN "warn" ELSE "idle"

\* d.py:129-134  search_word starts, from mainloop or from the event loop of
\* an open warning box (a <Return> that reaches the entry): it reads and
\* strips the entry; an empty word opens a warning box, in which the handler
\* waits until the box is dismissed
SearchWord(raw) ==
    /\ pc \in {"idle", "warn"}
    /\ nSearch < MaxSearches
    /\ entry' = raw
    /\ nSearch' = nSearch + 1
    /\ written' = <<>>
    /\ IF Strip(raw) = <<>>
       THEN /\ pc' = "warn"
            /\ boxes' = boxes + 1
            /\ stats' = [stats EXCEPT !.warnings = @ + 1]
            /\ cur' = NoSearch
       ELSE /\ pc' = "l136"
            /\ boxes' = boxes
            /\ stats' = stats
            /\ cur' = [NoSearch EXCEPT !.id = nSearch + 1, !.word = Strip(raw)]
    /\ UNCHANGED <<display, wstate, worker, afterq, inserted, io, handed>>

\* d.py:133-134  the innermost warning box is dismissed and its search_word
\* returns, to the event loop of the box beneath it or to mainloop
DismissWarning ==
    /\ pc = "warn"
    /\ boxes' = boxes - 1
    /\ pc' = EventLoop(boxes - 1)
    /\ UNCHANGED <<entry, display, wstate, cur, worker, afterq, nSearch, stats,
                   written, inserted, io, handed>>

\* search_word without its config(state='normal')
ConfigNormalMissing ==
    /\ pc = "l136"
    /\ pc' = "l137"
    /\ UNCHANGED <<entry, display, wstate, cur, worker, afterq, nSearch, stats,
                   written, inserted, io, handed, boxes>>

\* d.py:136  results_text.config(state='normal')
ConfigNormal ==
    /\ pc = "l136"
    /\ wstate' = "normal"
    /\ pc' = "l137"
    /\ UNCHANGED <<entry, display, cur, worker, afterq, nSearch, stats, written,
                   inserted, io, handed, boxes>>

\* d.py:137  results_text.delete('1.0', tk.END)
ClearDisplay ==
    /\ pc = "l137"
    /\ display' = TextDelete(display, wstate, 1, TkEnd(display))
    /\ written' = Append(written, "clear")
    /\ pc' = "l140"
    /\ UNCHANGED <<entry, wstate, cur, worker, afterq, nSearch, stats, inserted, io, handed, boxes>>

\* d.py:140  add_result_header("Free Dictionary (dictionaryapi.dev)")
DictHeader ==
    /\ pc = "l140"
    /\ display' = add_result_header(display, wstate, DICT_TITLE)
    /\ written' = Append(written, "dict_header")
    /\ pc' = "l141"
    /\ UNCHANGED <<entry, wstate, cur, worker, afterq, nSearch, stats, inserted, io, handed, boxes>>

\* d.py:141, 15  search_word calls get_free_dictionary_definition(word) on
\* the interactive thread and requests.get sends the request; the thread
\* stays inside the call until the answer comes, the workers run meanwhile
DictRequest ==
    /\ pc = "l141"
    /\ ~cur.sent
    /\ cur' = [cur EXCEPT !.sent = TRUE]
    /\ stats' = [stats EXCEPT !.dictRequests = @ + 1]
    /\ UNCHANGED <<entry, display, wstate, pc, worker, afterq, nSearch, written,
                   inserted, io, handed, boxes>>

\* d.py:141  the assignment of what get_free_dictionary_definition gave for
\* the outcome o; an exception that leaves it leaves search_word too and ends
\* the handler (Tk reports it and goes on with the event loop it was in)
DictLookupEnd(o, r) ==
    IF r.ret = "raise"
    THEN /\ pc' = EventLoop(boxes)
         /\ cur' = [cur EXCEPT !.response = o]
         /\ stats' = [stats EXCEPT !.uiErrors = @ + 1]
    ELSE /\ pc' = "l142"
         /\ cur' = [cur EXCEPT !.response = o, !.definition1 = r.value]
         /\ stats' = stats

\* d.py:15-40, 141  the request sent at d.py:15 ends with one of its outcomes,
\* get_free_dictionary_definition goes on to its end and
\* definition1 = get_free_dictionary_definition(word) is assigned
DictLookup ==
    /\ pc = "l141"
    /\ cur.sent
    /\ \E o \in DictOutcomes : DictLookupEnd(o, get_free_dictionary_definition(o))
    /\ UNCHANGED <<entry, display, wstate, worker, afterq, nSearch, written,
                   inserted, io, handed, boxes>>

\* d.py:142  results_text.insert(tk.END, definition1 + "\n\n")
DictResult ==
    /\ pc = "l142"
    /\ display' = TextInsert(display, wstate, TkEnd(display), cur.definition1 \o NL2)
    /\ written' = Append(written, "dict_result")
    /\ pc' = "l145"
    /\ UNCHANGED <<entry, wstate, cur, worker, afterq, nSearch, stats, inserted, io, handed, boxes>>

\* search_word starting the thread before the LLM header and the placeholder
LlmHeaderAfterDispatch ==
    /\ pc = "l145"
    /\ worker' = [worker EXCEPT ![cur.id] = "started"]
    /\ display' = add_result_header(display, wstate, LLM_TITLE)
    /\ written' = Append(Append(written, "dispatch"), "llm_header")
    /\ pc' = "l146"
    /\ UNCHANGED <<entry, wstate, cur, afterq, nSearch, stats, inserted, io, handed, boxes>>

\* d.py:145  add_result_header("LLM Definition (Gemini)")
LlmHeader ==
    /\ pc = "l145"
    /\ display' = add_result_header(display, wstate, LLM_TITLE)
    /\ written' = Append(written, "llm_header")
    /\ pc' = "l146"
    /\ UNCHANGED <<entry, wstate, cur, worker, afterq, nSearch, stats, inserted, io, handed, boxes>>

\* d.py:146  results_text.insert(tk.END, "Fetching definition from LLM... Please wait.\n")
Placeholder ==
    /\ pc = "l146"
    /\ display' = TextInsert(display, wstate, TkEnd(display), PLACEHOLDER_LINE)
    /\ written' = Append(written, "placeholder")
    /\ pc' = "l149"
    /\ UNCHANGED <<entry, wstate, cur, worker, afterq, nSearch, stats, inserted, io, handed, boxes>>

\* d.py:149  threading.Thread(target=get_llm_definition, ...).start(): the
\* worker of the search exists and runs from here on, search_word is still
\* at its last line
StartThread ==
    /\ pc = "l149"
    /\ worker[cur.id] = "none"
    /\ worker' = [worker EXCEPT ![cur.id] = "started"]
    /\ stats' = [stats EXCEPT !.threads = @ + 1]
    /\ written' = Append(written, "dispatch")
    /\ UNCHANGED <<entry, display, wstate, pc, cur, afterq, nSearch, inserted, io,
                   handed, boxes>>

\* d.py:149  start() has returned and search_word returns to the event loop
\* it was started from; the worker may have sent its request and got its
\* answer meanwhile
SearchWordReturn ==
    /\ pc = "l149"
    /\ worker[cur.id] # "none"
    /\ pc' = EventLoop(boxes)
    /\ UNCHANGED <<entry, display, wstate, cur, worker, afterq, nSearch, stats,
                   written, inserted, io, handed, boxes>>

\* d.py:61  the worker of search i sends its one POST request
WorkerRequest(i) ==
    /\ worker[i] = "started"
    /\ worker' = [worker EXCEPT ![i] = "waiting"]
    /\ stats' = [stats EXCEPT !.llmRequests = @ + 1]
    /\ UNCHANGED <<entry, display, wstate, pc, cur, afterq, nSearch, written,
                   inserted, io, handed, boxes>>

\* _insert_llm_result that drops the result when the placeholder's words are
\* not found, instead of appending it
insert_llm_result_discard(d, result) ==
    LET start_index == TextSearch(d, SEARCH_PATTERN)
        is_text     == result.t = "str"
    IN  IF start_index # 0
        THEN LET deleted == TextDelete(d, "normal", start_index,
                                       PlusOneLine(d, start_index))
             IN  [display |-> IF is_text
                              THEN TextInsert(deleted, "normal", start_index,
                                              result.v \o NL2)
                              ELSE deleted,
                  wstate  |-> IF is_text THEN "disabled" ELSE "normal",
                  raised  |-> ~is_text]
        ELSE [display |-> d, wstate |-> "disabled", raised |-> FALSE]

\* d.py:156-168  _insert_llm_result(result) on content d: the new content,
\* the widget's state afterwards, and whether an exception left the callback.
\* `result + "\n\n"` raises TypeError for a result that is not a string,
\* after the delete of the first branch and before any insert.
insert_llm_result(d, result) ==
    LET start_index == TextSearch(d, SEARCH_PATTERN)
        is_text     == result.t = "str"
    IN  IF start_index # 0
        THEN LET deleted == TextDelete(d, "normal", start_index,
                                       PlusOneLine(d, start_index))
             IN  [display |-> IF is_text
                              THEN TextInsert(deleted, "normal", start_index,
                                              result.v \o NL2)
                              ELSE deleted,
                  wstate  |-> IF is_text THEN "disabled" ELSE "normal",
                  raised  |-> ~is_text]
        ELSE [display |-> IF is_text
                          THEN TextInsert(d, "normal", TkEnd(d), result.v \o NL2)
                          ELSE d,
              wstate  |-> IF is_text THEN "disabled" ELSE "normal",
              raised  |-> ~is_text]

\* d.py:61-94, 151-154  what the end of get_llm_definition leaves of worker
\* i: with a value for the callback the thread is inside update_llm_result,
\* in the call of root.after; with none the thread has ended
WorkerResponseEnd(i, r) ==
    IF r.callbacks # <<>>
    THEN /\ worker' = [worker EXCEPT ![i] = "calling"]
         /\ handed' = [handed EXCEPT ![i] = r.callbacks[1]]
    ELSE /\ worker' = [worker EXCEPT ![i] = "done"]
         /\ handed' = handed

\* d.py:61-94  the request of worker i ends with one of its outcomes and
\* get_llm_definition hands its result to the callback, update_llm_result,
\* which calls root.after on the worker thread
WorkerResponse(i) ==
    /\ worker[i] = "waiting"
    /\ \E o \in LlmOutcomes : WorkerResponseEnd(i, get_llm_definition(o))
    /\ UNCHANGED <<entry, display, wstate, pc, cur, afterq, nSearch, stats, written,
                   inserted, io, boxes>>

\* the worker thread writes the result into the widget itself, at once
update_llm_result_direct(i, result) ==
    LET r == insert_llm_result(display, result)
    IN  /\ display' = r.display
        /\ wstate' = r.wstate
        /\ inserted' = [inserted EXCEPT ![i] = @ + (IF r.raised THEN 0 ELSE 1)]
        /\ afterq' = afterq

\* d.py:151-154  update_llm_result, called on the worker thread of search i:
\* root.after(0, self._insert_llm_result, result). A call of Tk from another
\* thread is carried out by the interactive thread, in Tk's event loop: the
\* callback is queued when no handler runs, or inside the warning box
update_llm_result(i, result) ==
    /\ pc \in {"idle", "warn"}
    /\ afterq' = Append(afterq, [id |-> i, result |-> result])
    /\ UNCHANGED <<display, wstate, inserted>>

\* d.py:154  the call of root.after made by worker i is carried out; the
\* worker thread is still inside update_llm_result
RootAfter(i) ==
    /\ worker[i] = "calling"
    /\ update_llm_result(i, handed[i])
    /\ worker' = [worker EXCEPT ![i] = "queued"]
    /\ UNCHANGED <<entry, pc, cur, nSearch, stats, written, io, handed, boxes>>

\* d.py:154, 94  root.after returns to worker i, update_llm_result and
\* get_llm_definition return and the thread ends
WorkerEnd(i) ==
    /\ worker[i] = "queued"
    /\ worker' = [worker EXCEPT ![i] = "done"]
    /\ UNCHANGED <<entry, display, wstate, pc, cur, afterq, nSearch, stats, written,
                   inserted, io, handed, boxes>>

\* queued callbacks run at any time, also while search_word runs
RunAfterAnytime ==
    /\ afterq # <<>>
    /\ LET job == Head(afterq)
           r   == insert_llm_result(display, job.result)
       IN  /\ display' = r.display
           /\ wstate' = r.wstate
           /\ inserted' = [inserted EXCEPT ![job.id] = @ + (IF r.raised THEN 0 ELSE 1)]
           /\ stats' = [stats EXCEPT !.uiErrors = @ + (IF r.raised THEN 1 ELSE 0)]
    /\ afterq' = Tail(afterq)
    /\ UNCHANGED <<entry, pc, cur, worker, nSearch, written, io, handed, boxes>>

\* d.py:154, 156-168  Tk's event loop runs the oldest queued callback,
\* _insert_llm_result(result); the loop runs when no handler does, and inside
\* the warning box; the thread that queued the callback may still be alive
RunAfter ==
    /\ pc \in {"idle", "warn"}
    /\ afterq # <<>>
    /\ LET job == Head(afterq)
           r   == insert_llm_result(display, job.result)
       IN  /\ display' = r.display
           /\ wstate' = r.wstate
           /\ inserted' = [inserted EXCEPT ![job.id] = @ + (IF r.raised THEN 0 ELSE 1)]
           /\ stats' = [stats EXCEPT !.uiErrors = @ + (IF r.raised THEN 1 ELSE 0)]
    /\ afterq' = Tail(afterq)
    /\ UNCHANGED <<entry, pc, cur, worker, nSearch, written, io, handed, boxes>>

Next ==
    \/ \E raw \in RawInputs : SearchWord(raw)
    \/ DismissWarning
    \/ ConfigNormal
    \/ ClearDisplay
    \/ DictHeader
    \/ DictRequest
    \/ DictLookup
    \/ DictResult
    \/ LlmHeader
    \/ Placeholder
    \/ StartThread
    \/ SearchWordReturn
    \/ \E i \in SearchIds : WorkerRequest(i)
    \/ \E i \in SearchIds : WorkerResponse(i)
    \/ \E i \in SearchIds : RootAfter(i)
    \/ \E i \in SearchIds : WorkerEnd(i)
    \/ RunAfter

Spec == Init /\ [][Next]_vars

\* --------------------------------- get_llm_definition applied on its own

\* values a field of an LLM response body may hold
Leaves ==
    { JNull, JI(0), JI(5), JB(TRUE), JS(<<>>), JS(<<"o", "k">>), JS(<<"é", "\r">>),
      JL(<<>>), JL(<<JS(<<"x">>)>>), JD(<<>>) }

\* response bodies that follow the expected chain down to some step and hold
\* a leaf value there
LlmBodies ==
    Leaves
    \cup {WithCandidates(x) : x \in Leaves} \cup {WithCandidate(x) : x \in Leaves}
    \cup {WithContent(x) : x \in Leaves} \cup {WithParts(x) : x \in Leaves}
    \cup {WithPart(x) : x \in Leaves} \cup {WithText(x) : x \in Leaves}

\* the outcomes of the LLM request get_llm_definition is applied to
LlmInputs ==
    {Decoded(x) : x \in LlmBodies}
    \cup { HttpError(404, ERR_404, <<"n", "o">>), HttpError(500, ERR_500, <<>>),
           Transport(ERR_CONN),
           Undecodable("requests.JSONDecodeError", ERR_DECODE),
           Undecodable("json.JSONDecodeError", ERR_DECODE) }

InitLlm ==
    /\ entry = <<>>
    /\ display = <<>>
    /\ wstate = "disabled"
    /\ pc = "idle"
    /\ boxes = 0
    /\ cur = NoSearch
    /\ worker = [i \in SearchIds |-> "none"]
    /\ handed = [i \in SearchIds |-> JNull]
    /\ afterq = <<>>
    /\ nSearch = 0
    /\ stats = [dictRequests |-> 0, llmRequests |-> 0, threads |-> 0,
                warnings |-> 0, uiErrors |-> 0]
    /\ written = <<>>
    /\ inserted = [i \in SearchIds |-> 0]
    /\ \E o \in LlmInputs : io = [NoIo EXCEPT !.fn = "llm", !.arg = o]

\* d.py:42-94  one call of get_llm_definition with a callback that records
\* what it is given
CallLlm ==
    /\ io.fn = "llm"
    /\ ~io.done
    /\ LET r == get_llm_definition(io.arg)
       IN  io' = [io EXCEPT !.done = TRUE, !.value = r.callbacks, !.raised = r.raised]
    /\ UNCHANGED <<entry, display, wstate, pc, cur, worker, afterq, nSearch, stats,
                   written, inserted, handed, boxes>>

SpecLlm == InitLlm /\ [][CallLlm]_vars

\* ------------------------- get_free_dictionary_definition applied on its own

\* entries per dictionary response body
MaxEntries == 2

INFO_A == JD(<<<<KEY_DEFINITION, JS(<<"A">>)>>>>)
INFO_B == JD(<<<<KEY_DEFINITION, JS(<<"B">>)>>>>)
INFO_C == JD(<<<<KEY_DEFINITION, JS(<<"C">>)>>, <<KEY_EXAMPLE, JS(<<"e">>)>>>>)

\* a meaning with a part of speech and its definitions
Meaning(pos, infos) == JD(<<<<KEY_POS, JS(pos)>>, <<KEY_DEFINITIONS, JL(infos)>>>>)

\* an entry with the given meanings
Entry(meanings) == JD(<<<<KEY_MEANINGS, JL(meanings)>>>>)

\* the entries a dictionary response body is built from: without meanings,
\* with an empty list of meanings, with a meaning without definitions, and
\* with one or two meanings that hold definitions
DictEntries ==
    { JD(<<>>),
      Entry(<<>>),
      Entry(<<JD(<<<<KEY_POS, JS(<<"n">>)>>>>), Meaning(<<"n">>, <<>>)>>),
      Entry(<<Meaning(<<"n">>, <<INFO_A, INFO_B>>)>>),
      Entry(<<Meaning(<<"v">>, <<INFO_C>>)>>),
      Entry(<<Meaning(<<"n">>, <<INFO_B>>), JD(<<<<KEY_DEFINITIONS, JL(<<INFO_A>>)>>>>)>>) }

\* bodies made of entries, bodies that are not a list of entries, and bodies
\* with an entry, a meanings value or a meaning of the wrong type
DictBodies ==
    {JL(es) : es \in UNION {[1..k -> DictEntries] : k \in 0..MaxEntries}}
    \cup Leaves
    \cup { JL(<<JI(1)>>), JL(<<JD(<<<<KEY_MEANINGS, JNull>>>>)>>),
           JL(<<Entry(<<Meaning(<<"n">>, <<INFO_A>>)>>), JNull>>),
           JL(<<Entry(<<JS(<<"x">>)>>)>>),
           JL(<<Entry(<<Meaning(<<"n">>, <<JD(<<<<KEY_DEFINITION,
                  JL(<<JS(<<"i", "t", "'", "s">>), JS(<<"a", "\n", "é">>)>>)>>>>)>>)>>)>>) }

\* the outcomes of the dictionary request get_free_dictionary_definition is
\* applied to
DictInputs ==
    {Decoded(x) : x \in DictBodies}
    \cup { HttpError(404, ERR_404, <<>>), HttpError(500, ERR_500, <<>>),
           HttpError(403, <<"4", "0", "3">>, <<>>),
           Transport(ERR_CONN),
           Undecodable("requests.JSONDecodeError", ERR_DECODE),
           Undecodable("json.JSONDecodeError", ERR_DECODE) }

InitDict ==
    /\ entry = <<>>
    /\ display = <<>>
    /\ wstate = "disabled"
    /\ pc = "idle"
    /\ boxes = 0
    /\ cur = NoSearch
    /\ worker = [i \in SearchIds |-> "none"]
    /\ handed = [i \in SearchIds |-> JNull]
    /\ afterq = <<>>
    /\ nSearch = 0
    /\ stats = [dictRequests |-> 0, llmRequests |-> 0, threads |-> 0,
                warnings |-> 0, uiErrors |-> 0]
    /\ written = <<>>
    /\ inserted = [i \in SearchIds |-> 0]
    /\ \E o \in DictInputs : io = [NoIo EXCEPT !.fn = "dict", !.arg = o]

\* d.py:9-40  one call of get_free_dictionary_definition: what it returns, or
\* that an exception left it
CallDict ==
    /\ io.fn = "dict"
    /\ ~io.done
    /\ LET r == get_free_dictionary_definition(io.arg)
       IN  io' = [io EXCEPT !.done = TRUE, !.value = r.value,
                            !.raised = (r.ret = "raise")]
    /\ UNCHANGED <<entry, display, wstate, pc, cur, worker, afterq, nSearch, stats,
                   written, inserted, handed, boxes>>

SpecDict == InitDict /\ [][CallDict]_vars

\* ------------------------------------------------------------------ claims

IsBlank(s) == \A i \in 1..Len(s) : s[i] \in Whitespace

StartsWith(s, p) == Len(p) <= Len(s) /\ MatchesAt(s, p, 1)

Contains(s, p) == \E i \in 1..(Len(s) - Len(p) + 1) : MatchesAt(s, p, i)

Count(seq, x) == Cardinality({i \in 1..Len(seq) : seq[i] = x})

IndexOf(seq, x) == Min({i \in 1..Len(seq) : seq[i] = x})

\* a step in which Tk runs the oldest queued _insert_llm_result
RunsCallback == afterq # <<>> /\ afterq' = Tail(afterq)

\* the position of the first placeholder line of d (the whole line, from the
\* start of a line to its newline), 0 when d has none
PlaceholderAt(d) ==
    LET at == {i \in 1..(Len(d) - Len(PLACEHOLDER_LINE) + 1) :
                 /\ MatchesAt(d, PLACEHOLDER_LINE, i)
                 /\ (i = 1 \/ d[i - 1] = "\n")}
    IN  IF at = {} THEN 0 ELSE Min(at)

\* C1: when the LLM result of an earlier search is delivered after a later
\* search has been dispatched, the result is appended to the end of the
\* display (so a placeholder line of the later search stays where it is);
\* stated for displays whose only "Fetching definition from LLM..." is that
\* of a placeholder line.
C1_StaleResultIsAppended ==
    [][ ( /\ RunsCallback
          /\ Head(afterq).result.t = "str"
          /\ TextSearch(display, SEARCH_PATTERN) \in {0, PlaceholderAt(display)}
          /\ \E j \in SearchIds : j > Head(afterq).id /\ worker[j] # "none" )
        => display' = display \o Head(afterq).result.v \o NL2 ]_vars

\* C2: when the display holds the placeholder line, _insert_llm_result puts
\* the result text in the place of exactly that line: what is before the line
\* and what is after it stay as they are.
C2_PlaceholderReplacedInPlace ==
    [][ ( /\ RunsCallback
          /\ Head(afterq).result.t = "str"
          /\ PlaceholderAt(display) # 0 )
        => LET p == PlaceholderAt(display)
           IN  display' = SubSeq(display, 1, p - 1)
                            \o Head(afterq).result.v \o NL2
                            \o SubSeq(display, p + Len(PLACEHOLDER_LINE), Len(display)) ]_vars

\* C3: the display (content and state) changes only in steps of the
\* interactive thread: every step of a background worker leaves it alone, and
\* the one thing a worker does with its result is the call of root.after in
\* update_llm_result, which queues exactly one callback carrying the result
\* its get_llm_definition gave, when the interactive thread is in Tk's loop.
C3_OnlyInteractiveThreadWrites ==
    [][ \A i \in SearchIds :
          (worker'[i] # worker[i])
          => /\ display' = display
             /\ wstate' = wstate
             /\ inserted' = inserted
             /\ worker[i] = "calling"
                  => /\ worker'[i] = "queued"
                     /\ pc \in {"idle", "warn"}
                     /\ afterq' = Append(afterq, [id |-> i, result |-> handed[i]])
             /\ worker[i] # "calling" => afterq' = afterq ]_vars

\* C3 witness: a worker is still inside update_llm_result, its result waits in
\* Tk's queue while the interactive thread is inside a later search_word,
\* and the display has not been touched by it
C3_Witness ==
    /\ \E i \in SearchIds : worker[i] = "queued" /\ afterq # <<>> /\ afterq[1].id = i
    /\ pc = "l142"
    /\ TextSearch(display, PLACEHOLDER_LINE) = 0

\* C4: once everything has come to rest (no handler running, no worker
\* running, no callback queued), the LLM result of every dispatched search has
\* been put on the display exactly once.
C4_EveryResultInsertedOnce ==
    ( /\ pc = "idle"
      /\ afterq = <<>>
      /\ \A i \in SearchIds : worker[i] \in {"none", "done"} )
    => \A i \in SearchIds : worker[i] = "done" => inserted[i] = 1

\* C5: a search_word execution with non-empty input that has ended wrote the
\* dictionary header exactly once and the LLM header exactly once, the
\* dictionary header first.
C5_HeadersOnceInOrder ==
    (pc = "idle" /\ nSearch > 0 /\ ~IsBlank(entry))
    => /\ Count(written, "dict_header") = 1
       /\ Count(written, "llm_header") = 1
       /\ IndexOf(written, "dict_header") < IndexOf(written, "llm_header")

\* C6: whenever no handler runs on the interactive thread (and none has ended
\* with an exception), the results widget is disabled.
C6_DisabledWhenIdle ==
    (pc = "idle" /\ stats.uiErrors = 0) => wstate = "disabled"

\* C7: search_word with an empty or whitespace-only input shows the warning
\* and does nothing else: its start opens the warning box and its return
\* closes it, and neither sends a request, starts a thread, queues a callback
\* or touches the display.
C7_BlankInputDoesNothing ==
    [][ /\ (nSearch' = nSearch + 1 /\ IsBlank(entry'))
           => /\ pc' = "warn"
              /\ boxes' = boxes + 1
              /\ stats' = [stats EXCEPT !.warnings = @ + 1]
              /\ UNCHANGED <<display, wstate, worker, afterq>>
        /\ (boxes' # boxes)
           => \/ nSearch' = nSearch + 1 /\ IsBlank(entry')
              \/ boxes' = boxes - 1
        /\ (boxes' = boxes - 1)
           => /\ pc = "warn"
              /\ pc' = EventLoop(boxes')
              /\ UNCHANGED <<display, wstate, worker, afterq, stats, nSearch>> ]_vars

\* C7 witness: the warning is up for a whitespace-only input while an earlier
\* search's content is on display and its worker still runs
C7_Witness ==
    /\ pc = "warn"
    /\ boxes = 1
    /\ entry # <<>>
    /\ IsBlank(entry)
    /\ display # <<>>
    /\ \E i \in SearchIds : worker[i] = "waiting"
    /\ stats.warnings = 1
    /\ stats.dictRequests = 1

\* whether a decoded body has the shape the LLM service documents:
\* {"candidates": [{"content": {"parts": [{"text": <string>}]}}]}
ExpectedShape(x) ==
    /\ x.t = "dict"
    /\ HasKey(x, KEY_CANDIDATES)
    /\ LET cs == Get(x, KEY_CANDIDATES)
       IN  /\ cs.t = "list"
           /\ cs.v # <<>>
           /\ cs.v[1].t = "dict"
           /\ HasKey(cs.v[1], KEY_CONTENT)
           /\ LET c == Get(cs.v[1], KEY_CONTENT)
              IN  /\ c.t = "dict"
                  /\ HasKey(c, KEY_PARTS)
                  /\ LET ps == Get(c, KEY_PARTS)
                     IN  /\ ps.t = "list"
                         /\ ps.v # <<>>
                         /\ ps.v[1].t = "dict"
                         /\ HasKey(ps.v[1], KEY_TEXT)
                         /\ Get(ps.v[1], KEY_TEXT).t = "str"

\* whether s is one of get_llm_definition's error texts
IsLlmErrorText(s) ==
    \E p \in {LLM_MSG_FORMAT, LLM_MSG_HTTP, LLM_MSG_NETWORK, LLM_MSG_PARSING,
              LLM_MSG_UNEXPECTED} : StartsWith(s, p)

\* C8: for every outcome of the request, get_llm_definition lets no exception
\* out and gives the callback exactly one value, a text; for every outcome
\* other than a body of the expected shape the text is an error text.
C8_OneResultNeverRaises ==
    (io.fn = "llm" /\ io.done)
    => /\ ~io.raised
       /\ Len(io.value) = 1
       /\ io.value[1].t = "str"
       /\ (io.arg.kind # "json" \/ ~ExpectedShape(io.arg.data))
            => IsLlmErrorText(io.value[1].v)

\* C9: for every decoded body that is not of the expected shape, the text
\* given to the callback holds the body pretty-printed (json.dumps, indent 2).
C9_MalformedShowsRawBody ==
    (io.fn = "llm" /\ io.done /\ io.arg.kind = "json" /\ ~ExpectedShape(io.arg.data))
    => /\ Len(io.value) = 1
       /\ io.value[1].t = "str"
       /\ Contains(io.value[1].v, Dumps(io.arg.data, 0))

\* C10: whatever the dictionary request does, a search_word execution with
\* non-empty input that has ended wrote the dictionary result beneath its
\* header, then the LLM header and the placeholder, and started the worker.
C10_DictionaryFailureDoesNotStopLlm ==
    (pc = "idle" /\ nSearch > 0 /\ ~IsBlank(entry))
    => /\ written = <<"clear", "dict_header", "dict_result", "llm_header",
                      "placeholder", "dispatch">>
       /\ worker[nSearch] # "none"

\* C11: for every response with a success status whose body cannot be
\* decoded, get_free_dictionary_definition returns exactly "Could not parse
\* the response from the server.".
C11_UndecodableBodyGivesParseMessage ==
    (io.fn = "dict" /\ io.done /\ io.arg.kind = "undecodable")
    => (~io.raised /\ io.value = MSG_PARSE)

\* C12: when the display does not hold the placeholder's words,
\* _insert_llm_result appends the result text: the old content is a prefix of
\* the new one, the new one is longer, and what was added is the result.
C12_AbsentPlaceholderAppends ==
    [][ ( /\ RunsCallback
          /\ Head(afterq).result.t = "str"
          /\ TextSearch(display, SEARCH_PATTERN) = 0 )
        => /\ Len(display') > Len(display)
           /\ SubSeq(display', 1, Len(display)) = display
           /\ SubSeq(display', Len(display) + 1, Len(display'))
                = Head(afterq).result.v \o NL2 ]_vars

\* C12 witness: two results follow the LLM header, the first in the place of
\* the placeholder and the second appended behind it
C12_Witness ==
    /\ afterq = <<>>
    /\ inserted[1] = 1
    /\ inserted[2] = 1
    /\ Contains(display, HDR_OPEN \o LLM_TITLE \o HDR_CLOSE
                           \o <<"m", "e", "o", "w">> \o NL2
                           \o <<"m", "e", "o", "w">> \o NL2)

\* C13: when the dictionary service answers 404, what search_word writes
\* beneath the dictionary header is exactly "Word not found in this
\* dictionary."; for any other error status it is another text, which holds
\* the error's detail.
C13_NotFoundText ==
    (pc = "l145" /\ cur.response.kind = "http_error")
    => /\ display = HDR_OPEN \o DICT_TITLE \o HDR_CLOSE \o cur.definition1 \o NL2
       /\ cur.response.status = 404 => cur.definition1 = MSG_NOT_FOUND
       /\ cur.response.status # 404
            => /\ cur.definition1 # MSG_NOT_FOUND
               /\ Contains(cur.definition1, cur.response.err)

\* C13 witness: a 404 answer has been written beneath the dictionary header
C13_Witness ==
    /\ pc = "l145"
    /\ cur.response.kind = "http_error"
    /\ cur.response.status = 404
    /\ display = HDR_OPEN \o DICT_TITLE \o HDR_CLOSE \o MSG_NOT_FOUND \o NL2

\* the meanings of entry e of a body, and the definitions of its meaning m
MeaningsOf(data, e) == GetOr(data.v[e], KEY_MEANINGS, JL(<<>>))
DefinitionsOf(data, e, m) == GetOr(MeaningsOf(data, e).v[m], KEY_DEFINITIONS, JL(<<>>))

\* whether a decoded body has the shape the dictionary service documents: a
\* list of entries, each a mapping whose meanings (if any) are a list of
\* mappings whose definitions (if any) are a list of mappings
DictShape(data) ==
    /\ data.t = "list"
    /\ \A e \in 1..Len(data.v) :
          /\ data.v[e].t = "dict"
          /\ MeaningsOf(data, e).t = "list"
          /\ \A m \in 1..Len(MeaningsOf(data, e).v) :
                /\ MeaningsOf(data, e).v[m].t = "dict"
                /\ DefinitionsOf(data, e, m).t = "list"
                /\ \A d \in 1..Len(DefinitionsOf(data, e, m).v) :
                      DefinitionsOf(data, e, m).v[d].t = "dict"

\* the places <<entry, meaning, definition>> of the definitions of a body
DefinitionPlaces(data) ==
    UNION {UNION {{<<e, m, d>> : d \in 1..Len(DefinitionsOf(data, e, m).v)} :
                    m \in 1..Len(MeaningsOf(data, e).v)} :
             e \in 1..Len(data.v)}

\* the source order: entry first, then meaning, then definition
ComesBefore(a, b) ==
    \/ a[1] < b[1]
    \/ a[1] = b[1] /\ a[2] < b[2]
    \/ a[1] = b[1] /\ a[2] = b[2] /\ a[3] < b[3]

\* the formatted strings of all definitions of a body, in source order
InSourceOrder(data) ==
    LET places  == DefinitionPlaces(data)
        rank(a) == Cardinality({b \in places : ComesBefore(b, a)}) + 1
        at(k)   == CHOOSE a \in places : rank(a) = k
    IN  [k \in 1..Cardinality(places) |->
           DefStr(GetOr(MeaningsOf(data, at(k)[1]).v[at(k)[2]], KEY_POS, JS(DEFAULT_POS)),
                  DefinitionsOf(data, at(k)[1], at(k)[2]).v[at(k)[3]])]

\* C14: for every response of the documented shape that holds definitions,
\* the result is the formatted strings of all its definitions, one per
\* definition, in source order (entry, then meaning, then definition), joined
\* by newlines.
C14_FlatteningKeepsOrder ==
    ( /\ io.fn = "dict"
      /\ io.done
      /\ io.arg.kind = "json"
      /\ DictShape(io.arg.data)
      /\ DefinitionPlaces(io.arg.data) # {} )
    => /\ ~io.raised
       /\ io.value = Join(InSourceOrder(io.arg.data), NL)

\* C14 witness: an entry with definitions A, B and then an entry with
\* definition C have been rendered as A, B, C
C14_Witness ==
    /\ io.fn = "dict"
    /\ io.done
    /\ io.arg.kind = "json"
    /\ io.arg.data = JL(<<Entry(<<Meaning(<<"n">>, <<INFO_A, INFO_B>>)>>),
                          Entry(<<Meaning(<<"v">>, <<INFO_C>>)>>)>>)
    /\ io.value = <<"(", "n", ")", " ", "A", "\n", "(", "n", ")", " ", "B", "\n",
                    "(", "v", ")", " ", "C">> \o EXAMPLE_OPEN \o <<"e">> \o EXAMPLE_CLOSE

\* whether a decoded body holds a definition at all: an entry that is a
\* mapping whose meanings are a list, with a meaning that is a mapping whose
\* definitions are a list that is not empty
HoldsDefinition(data) ==
    /\ data.t = "list"
    /\ \E e \in 1..Len(data.v) :
          /\ data.v[e].t = "dict"
          /\ MeaningsOf(data, e).t = "list"
          /\ \E m \in 1..Len(MeaningsOf(data, e).v) :
                /\ MeaningsOf(data, e).v[m].t = "dict"
                /\ DefinitionsOf(data, e, m).t = "list"
                /\ DefinitionsOf(data, e, m).v # <<>>

\* C15: for every decoded response that holds no definition (a body that is
\* not a list, an empty list, entries or meanings without definitions,
\* whatever their values are) the result is exactly "No definition found for
\* this word.".
C15_NoDefinitionsText ==
    ( /\ io.fn = "dict"
      /\ io.done
      /\ io.arg.kind = "json"
      /\ ~HoldsDefinition(io.arg.data) )
    => /\ ~io.raised
       /\ io.value = MSG_NO_DEFINITION_WORD

\* whether nothing runs and nothing is queued
AtRest ==
    /\ pc = "idle"
    /\ afterq = <<>>
    /\ \A i \in SearchIds : worker[i] \in {"none", "done"}

\* C16: once everything has come to rest, the dictionary requests issued, the
\* LLM requests issued and the workers started each number as many as the
\* searches with non-empty input (all searches less those that showed the
\* warning).
C16_OneRequestPerSourcePerSearch ==
    AtRest
    => /\ stats.dictRequests = nSearch - stats.warnings
       /\ stats.llmRequests = nSearch - stats.warnings
       /\ stats.threads = nSearch - stats.warnings

\* the steps of one search_word execution, in the order of d.py:137-149
SearchOrder ==
    <<"clear", "dict_header", "dict_result", "llm_header", "placeholder", "dispatch">>

IsPrefix(s, t) == Len(s) <= Len(t) /\ SubSeq(t, 1, Len(s)) = s

\* C17: the steps of a search happen in the order clear, dictionary header,
\* dictionary result, LLM header, placeholder, dispatch; the worker of a
\* search is started only as the last of them, with the dictionary result and
\* the placeholder on display; a result is queued only for a worker that got
\* its response and called root.after, and inserted only after that.
C17_StepsInOrder ==
    [][ /\ IsPrefix(written', SearchOrder)
        /\ \A i \in SearchIds :
              (worker[i] = "none" /\ worker'[i] # "none")
              => /\ cur.id = i
                 /\ written = SubSeq(SearchOrder, 1, 5)
                 /\ written' = SearchOrder
                 /\ display = HDR_OPEN \o DICT_TITLE \o HDR_CLOSE
                                \o cur.definition1 \o NL2
                                \o HDR_OPEN \o LLM_TITLE \o HDR_CLOSE
                                \o PLACEHOLDER_LINE
        /\ Len(afterq') > Len(afterq)
              => worker[afterq'[Len(afterq')].id] = "calling"
        /\ RunsCallback => worker[Head(afterq).id] \in {"queued", "done"} ]_vars

\* C17 witness: the first search went through all its steps and its result
\* has then been inserted beneath the dictionary result
C17_Witness ==
    /\ nSearch = 1
    /\ written = SearchOrder
    /\ inserted[1] = 1
    /\ display = HDR_OPEN \o DICT_TITLE \o HDR_CLOSE \o cur.definition1 \o NL2
                   \o HDR_OPEN \o LLM_TITLE \o HDR_CLOSE
                   \o <<"m", "e", "o", "w">> \o NL2

\* C18: from the clearing of the display to the writing of the placeholder
\* line no queued _insert_llm_result runs: no callback leaves Tk's queue
\* (nor enters it) and no result is inserted, whatever the workers do
\* meanwhile.
C18_NoInsertionDuringSearchWrites ==
    [][ (pc \in {"l137", "l140", "l141", "l142", "l145", "l146"})
        => ( /\ ~RunsCallback
             /\ inserted' = inserted
             /\ afterq' = afterq ) ]_vars

\* C18 witness: the result of the first search waits in Tk's queue while the
\* second search_word is about to write its placeholder, its dictionary
\* request sent and answered meanwhile
C18_Witness ==
    /\ pc = "l146"
    /\ cur.id = 2
    /\ cur.sent
    /\ afterq # <<>>
    /\ afterq[1].id = 1
    /\ inserted[1] = 0

\* what search_word writes at each of its writing lines
WrittenAt(p) ==
    CASE p = "l140" -> HDR_OPEN \o DICT_TITLE \o HDR_CLOSE
      [] p = "l142" -> cur.definition1 \o NL2
      [] p = "l145" -> HDR_OPEN \o LLM_TITLE \o HDR_CLOSE
      [] p = "l146" -> PLACEHOLDER_LINE

\* C19: the widget is writable at every line of search_word that deletes or
\* inserts, and each of them takes effect: the clear empties the display, each
\* insert adds its whole text at the end; a string result that
\* _insert_llm_result is given is on the display afterwards.
C19_WritesHappenInNormalState ==
    [][ /\ pc \in {"l137", "l140", "l142", "l145", "l146"} => wstate = "normal"
        /\ (pc = "l137" /\ pc' # pc) => display' = <<>>
        /\ \A p \in {"l140", "l142", "l145", "l146"} :
              (pc = p /\ pc' # pc) => display' = display \o WrittenAt(p)
        /\ (RunsCallback /\ Head(afterq).result.t = "str")
              => /\ Len(display') > 0
                 /\ display' # display
                 /\ Contains(display', Head(afterq).result.v \o NL2) ]_vars

\* C19 witness: the second search, begun after the first result's insertion
\* disabled the widget, has written both headers, its dictionary result and
\* its placeholder
C19_Witness ==
    /\ nSearch = 2
    /\ inserted[1] = 1
    /\ pc = "l149"
    /\ wstate = "normal"
    /\ display = HDR_OPEN \o DICT_TITLE \o HDR_CLOSE \o cur.definition1 \o NL2
                   \o HDR_OPEN \o LLM_TITLE \o HDR_CLOSE \o PLACEHOLDER_LINE

====
